---- MODULE Spec2Model ----
(***************************************************************************)
(* subredmonitor (subreddit.py): a monitor process pulls submissions from  *)
(* a subreddit stream, matches them against the rules of config.yaml,      *)
(* counts every hit in Redis (INCR on the submission id) and notifies      *)
(* Prowl and Pushover when the count is 1.                                 *)
(*                                                                         *)
(* Strings are sequences of one-character strings.  One or more monitor    *)
(* processes ("instances") run the same script against one Redis.          *)
(***************************************************************************)
EXTENDS Integers, Sequences, FiniteSets, TLC

(* ------------------------------ bounds --------------------------------- *)

\* Submissions the streams yield, over all instances and restarts: one
\* monitor, and two monitors side by side.
MaxPulls == 3
MaxPullsConc == 3

\* Longest title, and longest title_match list, the evaluation of one
\* submission is checked on.
MaxTitleLen == 2
MaxRules == 2

(* ------------------------- program constants --------------------------- *)

\* Mutation: one retry too many.
RetriesSix == 5 + 1

\* get_submission_hits: retries = 5
Retries == 5

(* ------------------------------ strings -------------------------------- *)

\* str.lower() on one character
LowerChar(c) ==
    CASE c = "A" -> "a"
      [] c = "B" -> "b"
      [] OTHER   -> c

\* str.lower()
Lower(s) == [i \in 1..Len(s) |-> LowerChar(s[i])]

\* The offsets at which needle occurs in hay.
Occurrences(hay, needle) ==
    {i \in 0..(Len(hay) - Len(needle)) :
        \A k \in 1..Len(needle) : hay[i + k] = needle[k]}

\* str.find(): the lowest offset of needle in hay, -1 when there is none
Find(hay, needle) ==
    IF Occurrences(hay, needle) = {}
    THEN -1
    ELSE CHOOSE i \in Occurrences(hay, needle) :
            \A j \in Occurrences(hay, needle) : i <= j

\* Mutation: the offset returned by find() is itself taken as the truth
\* value.
ContainsTruthy(text, pattern) == Find(Lower(text), Lower(pattern)) /= 0

\* submission.title.lower().find(pattern.lower()) != -1
Contains(text, pattern) == Find(Lower(text), Lower(pattern)) /= -1

(* ------------------------------- rules --------------------------------- *)

\* 'key' in CONFIG
HasKey(cfg, key) == key \in DOMAIN cfg

\* Lines 180-182: the inner loop over CONFIG['title_match_secondary'], from
\* its j-th entry on; flag is title_matched so far.
RECURSIVE SecondaryLoop(_, _, _, _)
SecondaryLoop(cfg, title, j, flag) ==
    IF j > Len(cfg.title_match_secondary)
    THEN flag
    ELSE SecondaryLoop(cfg, title, j + 1,
             IF Contains(title, cfg.title_match_secondary[j])
             THEN TRUE
             ELSE flag)

\* Lines 176-184: the loop over CONFIG['title_match'], from its i-th entry
\* on; flag is title_matched so far.
RECURSIVE TitleLoop(_, _, _, _)
TitleLoop(cfg, title, i, flag) ==
    IF i > Len(cfg.title_match)
    THEN flag
    ELSE TitleLoop(cfg, title, i + 1,
             IF Contains(title, cfg.title_match[i])
             THEN IF HasKey(cfg, "title_match_secondary")
                  THEN SecondaryLoop(cfg, title, 1, flag)
                  ELSE TRUE
             ELSE flag)

\* Mutation: title_match_secondary is not consulted.
TitleStagePrimaryOnly(cfg, title, flag) ==
    \/ flag
    \/ \E i \in DOMAIN cfg.title_match : Contains(title, cfg.title_match[i])

\* Lines 176-184: title_matched after the title stage, flag being its value
\* when the stage begins.
TitleStage(cfg, title, flag) == TitleLoop(cfg, title, 1, flag)

\* Lines 190-192: the loop over CONFIG['text_match'], from its i-th entry
\* on; flag is text_matched so far.
RECURSIVE TextLoop(_, _, _, _)
TextLoop(cfg, text, i, flag) ==
    IF i > Len(cfg.text_match)
    THEN flag
    ELSE TextLoop(cfg, text, i + 1,
             IF Contains(text, cfg.text_match[i]) THEN TRUE ELSE flag)

\* Mutation: submission.is_self is not consulted.
TextStageAnyPost(cfg, sub, flag) ==
    IF HasKey(cfg, "text_match")
    THEN TextLoop(cfg, sub.selftext, 1, flag)
    ELSE TRUE

\* Lines 187-194, run only when title_matched: text_matched after the text
\* stage, flag being its value when the stage begins.
TextStage(cfg, sub, flag) ==
    IF HasKey(cfg, "text_match")
    THEN IF sub.is_self
         THEN TextLoop(cfg, sub.selftext, 1, flag)
         ELSE flag
    ELSE TRUE

\* Mutation: the flags keep what the submission before left in them.
FlagsKept(old) == old

\* Line 174: both flags are set to False when a submission arrives, old
\* being what the submission before left in the flag.
FlagsReset(old) == FALSE

\* Mutation: the text stage is not consulted.
EntersCountingOnTitle(tm, xm) == tm

\* Line 185 and line 195: the branch that reaches get_submission_hits.
EntersCounting(tm, xm) == tm /\ xm

\* Mutation: the answer of the counter is not consulted before dispatch.
SkipsNever(h) == FALSE

\* Mutation: the second sighting still notifies.
SkipsLate(h) == h > 2

\* Line 199: hits > 1 skips the notification.
Skips(h) == h > 1

\* Mutation: the test is off by one, a seventh attempt is made.
NoRetryLeftLate(r) == r < 0

\* Line 54: no retry is left.
NoRetryLeft(r) == r = 0

\* Mutation: the except clause matches every exception.
RetryableAny(e) == TRUE

\* Line 53: the except clause matches redis.exceptions.ConnectionError only.
Retryable(e) == e = "ConnectionError"

\* Mutation: notify_event hands the submission to Prowl and the main loop
\* goes on to the next submission while Pushover is still to be called.
AfterProwlNextSubmission == "pull"

\* Lines 155-156: notify_event calls notify_event_pushover after
\* notify_event_prowl.
AfterProwl == "pushover"

\* Mutation: SET key 1 instead of INCR key.
IncrValueSet(old) == 1

\* Line 52, redis INCR: a missing key counts as 0; the new value is stored
\* and returned.
IncrValue(old) == old + 1

(* ------------------------------ inputs --------------------------------- *)

Instances == {"m1", "m2"}

Ids == {"s1", "s2"}

\* The rule sets config.yaml may hold.
Configs ==
    { [subreddit |-> "r"],
      [subreddit |-> "r", title_match |-> <<>>],
      [subreddit |-> "r", title_match |-> << <<"a">> >>],
      [subreddit |-> "r", title_match |-> << <<"a">> >>,
                          title_match_secondary |-> << <<"B">> >>],
      [subreddit |-> "r", title_match |-> << <<"a">>, <<"b">> >>,
                          text_match |-> << <<"b">> >>] }

\* What a submission of the stream may say: title, is_self, selftext.
Contents ==
    { [title |-> <<"A", "b">>, is_self |-> TRUE,  selftext |-> <<"B">>],
      [title |-> <<"A", "b">>, is_self |-> FALSE, selftext |-> <<>>],
      [title |-> <<"b">>,      is_self |-> TRUE,  selftext |-> <<"B">>],
      [title |-> <<>>,         is_self |-> TRUE,  selftext |-> <<>>] }

\* submission.author is None for a deleted account.
Submissions ==
    { [id |-> i, title |-> c.title, is_self |-> c.is_self,
       selftext |-> c.selftext, author |-> a] :
        i \in Ids, c \in Contents, a \in {"u1", "None"} }

NoSubmission == [id |-> "none"]

Transports == {"prowl", "pushover"}

\* Every sequence of at most n members of S.
Strings(S, n) == UNION {[1..k -> S] : k \in 0..n}

\* Patterns a rule list may hold: the empty string, an upper-case letter
\* and a two-letter word among them.
Patterns == {<<>>, <<"a">>, <<"B">>, <<"a", "b">>}

\* title_match_secondary and text_match when config.yaml holds them.
OptionalRules == {<<>>, << <<>> >>, << <<"B">> >>, << <<"a">>, <<"B">> >>}

\* Rule sets for the evaluation of one submission: every title_match list
\* of at most MaxRules patterns, with and without the two optional lists.
EvalConfigs ==
    LET Primary == Strings(Patterns, MaxRules)
    IN  {[subreddit |-> "r", title_match |-> tm] : tm \in Primary}
        \cup {[subreddit |-> "r", title_match |-> tm,
                title_match_secondary |-> sm] :
                   tm \in Primary, sm \in OptionalRules}
        \cup {[subreddit |-> "r", title_match |-> tm, text_match |-> xm] :
                   tm \in Primary, xm \in OptionalRules}
        \cup {[subreddit |-> "r", title_match |-> tm,
                title_match_secondary |-> sm, text_match |-> xm] :
                   tm \in Primary, sm \in OptionalRules,
                   xm \in OptionalRules}

\* Link posts (selftext is empty) and self posts.
EvalBodies ==
    { [is_self |-> FALSE, selftext |-> <<>>],
      [is_self |-> TRUE,  selftext |-> <<>>],
      [is_self |-> TRUE,  selftext |-> <<"b">>],
      [is_self |-> TRUE,  selftext |-> <<"B", "a">>] }

\* Submissions for the evaluation of one submission: every title of at most
\* MaxTitleLen letters.
EvalSubmissions ==
    { [id |-> "s1", title |-> t, is_self |-> b.is_self,
       selftext |-> b.selftext, author |-> "u1"] :
        t \in Strings({"a", "B"}, MaxTitleLen), b \in EvalBodies }

(* ------------------------------- state --------------------------------- *)

VARIABLES
    CONFIG,            \* the rules loaded from config.yaml (line 22)
    stream,            \* which submissions the subreddit streams carry
    environ,           \* instance -> transports with valid credentials set
    counter,           \* Redis: submission id -> integer (0: no such key)
    notified,          \* id -> number of notify_event calls made for it
    sent,              \* id -> transport -> number of requests made
    lost,              \* id -> some request for it failed
    cut,               \* id -> a process was stopped between lines 196, 203
    pulled,            \* number of submissions pulled so far
    budget,            \* number of submissions the streams still yield
    pc,                \* instance -> where the script is
    exc,               \* instance -> what ended the process ("none": running)
    PROWL_ENABLED,     \* instance -> line 159
    PUSHOVER_ENABLED,  \* instance -> line 160
    submission,        \* instance -> the loop variable of line 173
    title_matched,     \* instance -> line 174
    text_matched,      \* instance -> line 174
    retries,           \* instance -> local of get_submission_hits
    hits,              \* instance -> line 196 (0: not assigned)
    attempts,          \* instance -> redis_cache.incr calls of line 196's call
    failures,          \* instance -> those that raised ConnectionError
    delays,            \* instance -> time.sleep(0.5) calls of that call
    base,              \* instance -> counter of the id when that call began
    stage,             \* instance -> where the current submission stands
    tried,             \* instance -> transports requested in this dispatch
    failed             \* instance -> transports that failed in this dispatch

world  == <<CONFIG, stream, environ, budget, counter, notified, sent, lost,
            pulled>>
shared == <<world, cut>>
flags  == <<PROWL_ENABLED, PUSHOVER_ENABLED>>
match  == <<submission, title_matched, text_matched>>
incr   == <<retries, hits, attempts, failures, delays, base>>
disp   == <<tried, failed>>
vars   == <<shared, pc, exc, flags, match, incr, stage, disp>>

Running(p) == pc[p] \notin {"off", "exited"}

\* The process of instance p ends with e: an uncaught exception, exit() or
\* a signal.
Exit(p, e) ==
    /\ pc'  = [pc EXCEPT ![p] = "exited"]
    /\ exc' = [exc EXCEPT ![p] = e]

Goto(p, l) ==
    /\ pc' = [pc EXCEPT ![p] = l]
    /\ UNCHANGED exc

\* A fresh interpreter: module-level names are not bound yet.
Fresh(init) ==
    /\ counter = [i \in Ids |-> 0]
    /\ notified = [i \in Ids |-> 0]
    /\ sent = [i \in Ids |-> [t \in Transports |-> 0]]
    /\ lost = [i \in Ids |-> FALSE]
    /\ cut = [i \in Ids |-> FALSE]
    /\ pulled = 0
    /\ pc = [p \in Instances |-> IF p \in init THEN "startup" ELSE "off"]
    /\ exc = [p \in Instances |-> "none"]
    /\ PROWL_ENABLED = [p \in Instances |-> FALSE]
    /\ PUSHOVER_ENABLED = [p \in Instances |-> FALSE]
    /\ submission = [p \in Instances |-> NoSubmission]
    /\ title_matched = [p \in Instances |-> FALSE]
    /\ text_matched = [p \in Instances |-> FALSE]
    /\ retries = [p \in Instances |-> 0]
    /\ hits = [p \in Instances |-> 0]
    /\ attempts = [p \in Instances |-> 0]
    /\ failures = [p \in Instances |-> 0]
    /\ delays = [p \in Instances |-> 0]
    /\ base = [p \in Instances |-> 0]
    /\ stage = [p \in Instances |-> "NONE"]
    /\ tried = [p \in Instances |-> {}]
    /\ failed = [p \in Instances |-> {}]

\* One monitor, any rule set, the whole stream.
Init ==
    /\ CONFIG \in Configs
    /\ stream = "all"
    /\ environ \in [Instances -> SUBSET Transports]
    /\ environ["m2"] = {}
    /\ budget = MaxPulls
    /\ Fresh({"m1"})

\* Two monitors side by side on one Redis, with the same rules, whose streams
\* both carry the same matching submission (and one that does not match).
ConcConfig == [subreddit |-> "r", title_match |-> << <<"a">> >>]

ConcStream ==
    {s \in Submissions :
        /\ s.is_self /\ s.selftext = <<"B">>
        /\ \/ s.id = "s1" /\ s.title = <<"A", "b">>
           \/ s.id = "s2" /\ s.title = <<"b">> /\ s.author = "u1"}

Yields(name) ==
    CASE name = "same" -> ConcStream
      [] name = "any"  -> EvalSubmissions
      [] OTHER         -> Submissions

InitConc ==
    /\ CONFIG = ConcConfig
    /\ stream = "same"
    /\ environ = [p \in Instances |-> Transports]
    /\ budget = MaxPullsConc
    /\ Fresh(Instances)

\* One monitor evaluating one submission: any rule set of EvalConfigs, any
\* submission of EvalSubmissions, both transports enabled.
InitEval ==
    /\ CONFIG \in EvalConfigs
    /\ stream = "any"
    /\ environ = [p \in Instances |-> IF p = "m1" THEN Transports ELSE {}]
    /\ budget = 1
    /\ Fresh({"m1"})

(* ------------------------------ startup -------------------------------- *)

\* Lines 20-44 and 158-171 when nothing stops the script: a transport is
\* enabled when its credentials are in the environment and verify.
Startup(p) ==
    /\ pc[p] = "startup"
    /\ PROWL_ENABLED' = [PROWL_ENABLED EXCEPT ![p] = "prowl" \in environ[p]]
    /\ PUSHOVER_ENABLED' =
           [PUSHOVER_ENABLED EXCEPT ![p] = "pushover" \in environ[p]]
    /\ Goto(p, "pull")
    /\ UNCHANGED <<shared, match, incr, stage, disp>>

\* Lines 26, 35, 44, 113, 116, 169: exit(); lines 81-86: the Pushover
\* validation request raised, so response is unbound at line 86.
StartupFails(p) ==
    /\ pc[p] = "startup"
    /\ \E e \in {"SystemExit", "UnboundLocalError"} : Exit(p, e)
    /\ UNCHANGED <<shared, flags, match, incr, stage, disp>>

(* ------------------------------ main loop ------------------------------ *)

\* Lines 173-195 and 205-210: the stream yields a submission, the flags are
\* reset, the title and text stages run; a hit enters get_submission_hits
\* (line 49), anything else is logged with submission.author.name.
Pull(p) ==
    /\ pc[p] = "pull"
    /\ budget > 0
    /\ \E s \in Yields(stream) :
        LET keyed == HasKey(CONFIG, "title_match")
            tm == IF keyed
                  THEN TitleStage(CONFIG, s.title,
                                  FlagsReset(title_matched[p]))
                  ELSE FlagsReset(title_matched[p])
            xm == IF tm
                  THEN TextStage(CONFIG, s, FlagsReset(text_matched[p]))
                  ELSE FlagsReset(text_matched[p])
        IN  /\ submission' = [submission EXCEPT ![p] = s]
            /\ title_matched' = [title_matched EXCEPT ![p] = tm]
            /\ text_matched' = [text_matched EXCEPT ![p] = xm]
            /\ IF ~keyed
               THEN /\ Exit(p, "KeyError")
                    /\ stage' = [stage EXCEPT ![p] = "NEW"]
                    /\ UNCHANGED retries
                    /\ base' = [base EXCEPT ![p] = 0]
               ELSE IF EntersCounting(tm, xm)
               THEN /\ Goto(p, "incr")
                    /\ stage' = [stage EXCEPT ![p] = "COUNTING"]
                    /\ retries' = [retries EXCEPT ![p] = Retries]
                    /\ base' = [base EXCEPT ![p] = counter[s.id]]
               ELSE IF s.author = "None"
               THEN /\ Exit(p, "AttributeError")
                    /\ stage' = [stage EXCEPT ![p] = "NEW"]
                    /\ UNCHANGED retries
                    /\ base' = [base EXCEPT ![p] = 0]
               ELSE /\ Goto(p, "pull")
                    /\ stage' = [stage EXCEPT ![p] = "DISCARDED"]
                    /\ UNCHANGED retries
                    /\ base' = [base EXCEPT ![p] = 0]
    /\ pulled' = pulled + 1
    /\ budget' = budget - 1
    /\ hits' = [hits EXCEPT ![p] = 0]
    /\ attempts' = [attempts EXCEPT ![p] = 0]
    /\ failures' = [failures EXCEPT ![p] = 0]
    /\ delays' = [delays EXCEPT ![p] = 0]
    /\ tried' = [tried EXCEPT ![p] = {}]
    /\ failed' = [failed EXCEPT ![p] = {}]
    /\ UNCHANGED <<cut, CONFIG, stream, environ, counter, notified, sent, lost,
                   flags>>

\* Line 52 returning: Redis increments the key atomically and answers the
\* new value.
IncrReturns(p) ==
    /\ pc[p] = "incr"
    /\ LET id == submission[p].id
       IN  /\ counter' = [counter EXCEPT ![id] = IncrValue(counter[id])]
           /\ hits' = [hits EXCEPT ![p] = IncrValue(counter[id])]
    /\ attempts' = [attempts EXCEPT ![p] = @ + 1]
    /\ retries' = [retries EXCEPT ![p] = 0]
    /\ Goto(p, "log_hit")
    /\ UNCHANGED <<cut, CONFIG, stream, environ, budget, notified, sent, lost,
                   pulled, flags, match, failures, delays, base, stage, disp>>

\* Lines 52-56: line 52 raises e. A ConnectionError is raised again when no
\* retry is left (nothing in the main loop catches it), else one retry is
\* used up; anything else passes the except clause of line 53.
IncrRaises(p, e) ==
    /\ pc[p] = "incr"
    /\ attempts' = [attempts EXCEPT ![p] = @ + 1]
    /\ failures' = [failures EXCEPT ![p] =
                        IF e = "ConnectionError" THEN @ + 1 ELSE @]
    /\ IF Retryable(e) /\ ~NoRetryLeft(retries[p])
       THEN /\ Goto(p, "sleep")
            /\ retries' = [retries EXCEPT ![p] = @ - 1]
            /\ UNCHANGED stage
       ELSE /\ Exit(p, e)
            /\ stage' = [stage EXCEPT ![p] = "FAILED"]
            /\ UNCHANGED retries
    /\ UNCHANGED <<shared, flags, match, hits, delays, base, disp>>

\* Line 52 raising redis.exceptions.ConnectionError.
IncrConnectionError(p) == IncrRaises(p, "ConnectionError")

\* Line 52 raising anything else (a ResponseError, say).
IncrOtherError(p) == IncrRaises(p, "ResponseError")

\* Line 57.
Sleep(p) ==
    /\ pc[p] = "sleep"
    /\ delays' = [delays EXCEPT ![p] = @ + 1]
    /\ Goto(p, "incr")
    /\ UNCHANGED <<shared, flags, match, retries, hits, attempts, failures,
                   base, stage, disp>>

\* Lines 197-204: the hit is logged with submission.author.name, then either
\* skipped or handed to notify_event.
LogHit(p) ==
    /\ pc[p] = "log_hit"
    /\ LET s == submission[p]
       IN  IF s.author = "None"
           THEN /\ Exit(p, "AttributeError")
                /\ UNCHANGED <<stage, notified, attempts, failures, delays,
                               base>>
           ELSE IF Skips(hits[p])
           THEN /\ Goto(p, "pull")
                /\ stage' = [stage EXCEPT ![p] = "SUPPRESSED"]
                /\ attempts' = [attempts EXCEPT ![p] = 0]
                /\ failures' = [failures EXCEPT ![p] = 0]
                /\ delays' = [delays EXCEPT ![p] = 0]
                /\ base' = [base EXCEPT ![p] = 0]
                /\ UNCHANGED notified
           ELSE /\ Goto(p, "prowl")
                /\ stage' = [stage EXCEPT ![p] = "DISPATCHING"]
                /\ notified' = [notified EXCEPT ![s.id] = @ + 1]
                /\ UNCHANGED <<attempts, failures, delays, base>>
    /\ UNCHANGED <<cut, CONFIG, stream, environ, budget, counter, sent, lost,
                   pulled, flags, match, retries, hits, disp>>

\* Lines 140-149 (called at line 155): any exception of the request is
\* caught and logged.
NotifyProwl(p) ==
    /\ pc[p] = "prowl"
    /\ LET id == submission[p].id
       IN  IF PROWL_ENABLED[p]
           THEN \E ok \in BOOLEAN :
                /\ sent' = [sent EXCEPT ![id]["prowl"] = @ + 1]
                /\ lost' = [lost EXCEPT ![id] = @ \/ ~ok]
                /\ tried' = [tried EXCEPT ![p] = @ \cup {"prowl"}]
                /\ failed' = [failed EXCEPT ![p] =
                                   IF ok THEN @ ELSE @ \cup {"prowl"}]
           ELSE UNCHANGED <<sent, lost, tried, failed>>
    /\ Goto(p, AfterProwl)
    /\ UNCHANGED <<cut, CONFIG, stream, environ, budget, counter, notified,
                   pulled, flags, match, incr, stage>>

\* Lines 120-137 (called at line 156): the request answers ok, answers an
\* error status, or raises; when it raises the error is logged and line 133
\* then reads response, which was never bound.
NotifyPushover(p) ==
    /\ pc[p] = "pushover"
    /\ LET id == submission[p].id
           Done == /\ Goto(p, "pull")
                   /\ stage' = [stage EXCEPT ![p] = "DONE"]
                   /\ attempts' = [attempts EXCEPT ![p] = 0]
                   /\ failures' = [failures EXCEPT ![p] = 0]
                   /\ delays' = [delays EXCEPT ![p] = 0]
                   /\ base' = [base EXCEPT ![p] = 0]
       IN  IF PUSHOVER_ENABLED[p]
           THEN \E r \in {"ok", "status", "raise"} :
                /\ sent' = [sent EXCEPT ![id]["pushover"] = @ + 1]
                /\ lost' = [lost EXCEPT ![id] = @ \/ r /= "ok"]
                /\ tried' = [tried EXCEPT ![p] = @ \cup {"pushover"}]
                /\ failed' = [failed EXCEPT ![p] =
                                   IF r = "ok" THEN @ ELSE @ \cup {"pushover"}]
                /\ IF r = "raise"
                   THEN /\ Exit(p, "UnboundLocalError")
                        /\ UNCHANGED <<stage, attempts, failures, delays,
                                       base>>
                   ELSE Done
           ELSE /\ UNCHANGED <<sent, lost, tried, failed>>
                /\ Done
    /\ UNCHANGED <<cut, CONFIG, stream, environ, budget, counter, notified,
                   pulled, flags, match, retries, hits>>

(* ------------------------- process life cycle -------------------------- *)

\* The process is stopped from outside (a signal) wherever it is; between
\* lines 196 and 203 with the answer 1 the increment is committed and
\* notify_event not yet called.
Interrupt(p) ==
    /\ Running(p)
    /\ Exit(p, "Interrupt")
    /\ cut' = IF pc[p] = "log_hit" /\ hits[p] = 1
              THEN [cut EXCEPT ![submission[p].id] = TRUE]
              ELSE cut
    /\ UNCHANGED <<world, flags, match, incr, stage, disp>>

\* The script is started again: every name of the process is fresh, Redis
\* keeps its keys.
Restart(p) ==
    /\ pc[p] = "exited"
    /\ pc' = [pc EXCEPT ![p] = "startup"]
    /\ exc' = [exc EXCEPT ![p] = "none"]
    /\ PROWL_ENABLED' = [PROWL_ENABLED EXCEPT ![p] = FALSE]
    /\ PUSHOVER_ENABLED' = [PUSHOVER_ENABLED EXCEPT ![p] = FALSE]
    /\ submission' = [submission EXCEPT ![p] = NoSubmission]
    /\ title_matched' = [title_matched EXCEPT ![p] = FALSE]
    /\ text_matched' = [text_matched EXCEPT ![p] = FALSE]
    /\ retries' = [retries EXCEPT ![p] = 0]
    /\ hits' = [hits EXCEPT ![p] = 0]
    /\ attempts' = [attempts EXCEPT ![p] = 0]
    /\ failures' = [failures EXCEPT ![p] = 0]
    /\ delays' = [delays EXCEPT ![p] = 0]
    /\ base' = [base EXCEPT ![p] = 0]
    /\ stage' = [stage EXCEPT ![p] = "NONE"]
    /\ tried' = [tried EXCEPT ![p] = {}]
    /\ failed' = [failed EXCEPT ![p] = {}]
    /\ UNCHANGED shared

Next ==
    \E p \in Instances :
        \/ Startup(p)
        \/ StartupFails(p)
        \/ Pull(p)
        \/ IncrReturns(p)
        \/ IncrConnectionError(p)
        \/ IncrOtherError(p)
        \/ Sleep(p)
        \/ LogHit(p)
        \/ NotifyProwl(p)
        \/ NotifyPushover(p)
        \/ Interrupt(p)
        \/ Restart(p)

Spec == Init /\ [][Next]_vars

SpecConc == InitConc /\ [][Next]_vars

\* One pass of the main loop over one submission, Redis answering and no
\* signal arriving.
NextEval ==
    \E p \in Instances :
        \/ Startup(p)
        \/ Pull(p)
        \/ IncrReturns(p)
        \/ LogHit(p)
        \/ NotifyProwl(p)
        \/ NotifyPushover(p)

SpecEval == InitEval /\ [][NextEval]_vars

(* ------------------------------ claims --------------------------------- *)

\* The instance has used the result of its increment: it is past the logging
\* of lines 197-198 and was not stopped from outside.
Counted(p) ==
    /\ hits[p] > 0
    /\ pc[p] # "log_hit"
    /\ exc[p] # "Interrupt"

Dispatching(p) == stage[p] \in {"DISPATCHING", "DONE"}

\* C1: with one monitor (restarts included), a hit whose increment returned
\* 1 is dispatched, a hit whose increment returned n > 1 is not, and the
\* counter of its id is the value returned.
C1_FirstDispatchedRestSuppressed ==
    \A p \in Instances :
        Counted(p) =>
            /\ counter[submission[p].id] = hits[p]
            /\ hits[p] = 1 => Dispatching(p) /\ notified[submission[p].id] = 1
            /\ hits[p] > 1 => stage[p] = "SUPPRESSED" /\ tried[p] = {}

\* C2: monitors running side by side never dispatch the same submission id
\* twice: notify_event is called at most once per id, each transport is
\* asked at most once per id, and the increment answers 1 to one monitor only.
C2_AtMostOneDispatch ==
    /\ \A i \in Ids :
        /\ notified[i] <= 1
        /\ \A t \in Transports : sent[i][t] <= 1
    /\ \A p, q \in Instances :
        (p # q /\ submission[p].id = submission[q].id) =>
            /\ ~(hits[p] = 1 /\ hits[q] = 1)
            /\ ~(Dispatching(p) /\ Dispatching(q))

\* C2 witness: both monitors have counted the same id, one was answered 1 and
\* dispatched, the other was answered 2 and skipped.
C2_Witness ==
    /\ submission["m1"].id = submission["m2"].id
    /\ hits["m1"] = 1 /\ stage["m1"] = "DONE"
    /\ hits["m2"] = 2 /\ stage["m2"] = "SUPPRESSED"
    /\ notified[submission["m1"].id] = 1

\* C3: six ConnectionErrors in one get_submission_hits call end the
\* processing with that error raised; no count was returned, the counter of
\* the id is what it was, and nothing was dispatched for the submission.
C3_ExhaustedRaises ==
    \A p \in Instances :
        failures[p] = 6 =>
            /\ pc[p] = "exited"
            /\ exc[p] = "ConnectionError"
            /\ stage[p] = "FAILED"
            /\ hits[p] = 0
            /\ counter[submission[p].id] = base[p]
            /\ tried[p] = {}

\* C3 witness: a hit whose six attempts all failed.
C3_Witness ==
    \E p \in Instances :
        /\ failures[p] = 6
        /\ stage[p] = "FAILED"
        /\ title_matched[p] /\ text_matched[p]

\* C4: one get_submission_hits call makes at most 6 attempts; an attempt is
\* made only when every earlier one raised ConnectionError and was followed
\* by a delay; the call raises ConnectionError only after 6 attempts and 5
\* delays.
C4_AtMostSixAttempts ==
    \A p \in Instances :
        /\ attempts[p] <= 6
        /\ pc[p] = "incr" =>
            /\ attempts[p] <= 5
            /\ failures[p] = attempts[p]
            /\ delays[p] = attempts[p]
            /\ retries[p] = 5 - attempts[p]
        /\ pc[p] = "sleep" =>
            /\ attempts[p] <= 5
            /\ failures[p] = attempts[p]
            /\ delays[p] = attempts[p] - 1
        /\ pc[p] = "log_hit" =>
            /\ failures[p] = attempts[p] - 1
            /\ delays[p] = failures[p]
        /\ exc[p] = "ConnectionError" =>
            /\ attempts[p] = 6
            /\ failures[p] = 6
            /\ delays[p] = 5

\* C4 witness: the sixth attempt is about to be made, after 5 failures and
\* 5 delays.
C4_Witness ==
    \E p \in Instances :
        pc[p] = "incr" /\ attempts[p] = 5 /\ delays[p] = 5 /\ retries[p] = 0

\* C5: when 1 to 5 attempts failed and the next one succeeded, the count
\* returned is the counter of the id, one more than before the call, and a
\* first-seen hit is dispatched once.
C5_RetriedIncrementDispatches ==
    \A p \in Instances :
        (failures[p] \in 1..5 /\ hits[p] > 0) =>
            /\ hits[p] = base[p] + 1
            /\ counter[submission[p].id] = hits[p]
            /\ (Counted(p) /\ hits[p] = 1) =>
                    Dispatching(p) /\ notified[submission[p].id] = 1

\* C6: a monitor whose increment ran out of retries is still running.
C6_FailureLeavesPipelineRunning ==
    \A p \in Instances :
        (stage[p] = "FAILED" /\ failures[p] = 6) => pc[p] # "exited"

\* C7: a failing transport does not end the process, and once the dispatch
\* is over every enabled transport has been asked.
C7_TransportFailureNotFatal ==
    \A p \in Instances :
        failed[p] # {} =>
            /\ exc[p] \in {"none", "Interrupt"}
            /\ pc[p] = "pull" => tried[p] = environ[p]

\* C8: a failed request leaves the dedup state alone and is not repeated:
\* while the monitor holds the failed dispatch the counter of the id is
\* still the 1 its increment committed, afterwards it is never below 1,
\* notify_event was called once and no transport was asked twice for the
\* id, and a later sighting of the id is not dispatched.
C8_FailedSendKeepsDedup ==
    /\ \A i \in Ids :
        lost[i] =>
            /\ counter[i] >= 1
            /\ notified[i] = 1
            /\ \A t \in Transports : sent[i][t] <= 1
    /\ \A p \in Instances :
        /\ failed[p] # {} =>
            hits[p] = 1 /\ counter[submission[p].id] = 1
        /\ (Counted(p) /\ lost[submission[p].id] /\ hits[p] > 1) =>
            ~Dispatching(p) /\ tried[p] = {}

\* C8 witness: an id whose notification failed on a transport is seen again
\* and skipped.
C8_Witness ==
    \E p \in Instances :
        /\ stage[p] = "SUPPRESSED"
        /\ lost[submission[p].id]
        /\ hits[p] = 2
        /\ counter[submission[p].id] = 2

\* The instance holds the verdict of a submission that is no hit.
NoHit(p) ==
    /\ submission[p] # NoSubmission
    /\ ~(title_matched[p] /\ text_matched[p])

\* What the monitor holding a no-hit verdict has done: nothing but pull.
NoHitIdle ==
    \A p \in Instances :
        NoHit(p) =>
            /\ pc[p] \in {"pull", "exited"}
            /\ attempts[p] = 0
            /\ hits[p] = 0
            /\ tried[p] = {}
            /\ stage[p] \in {"NEW", "DISCARDED"}

\* C9: a submission that is no hit (title not matched, or title matched and
\* text not) makes no call to Redis and no dispatch: the monitor holding its
\* verdict has made no attempt, asked no transport and never left the
\* stream, and no step that ends with the monitor holding such a verdict
\* changes a counter or what was sent.
C9_NoHitTouchesNothing ==
    /\ []NoHitIdle
    /\ [][(\E p \in Instances : NoHit(p)')
            => UNCHANGED <<counter, notified, sent, lost>>]_vars

\* C9 witness: a submission whose title matched and whose text did not was
\* discarded after an earlier hit had been counted.
C9_Witness ==
    \E p \in Instances :
        /\ title_matched[p] /\ ~text_matched[p]
        /\ stage[p] = "DISCARDED"
        /\ \E i \in Ids : counter[i] = 1 /\ notified[i] = 1

\* C10: a submission without author never makes the monitor raise.
C10_AbsentAuthorHarmless ==
    \A p \in Instances :
        (submission[p] # NoSubmission /\ submission[p].author = "None") =>
            exc[p] # "AttributeError"

\* C11. A configuration without title_match, or with an empty title_match
\* list, stops the program at startup: no submission is ever pulled under it.
C11_NoRulesNoPull ==
    (~HasKey(CONFIG, "title_match") \/ Len(CONFIG.title_match) = 0)
        => /\ pulled = 0
           /\ \A p \in Instances : submission[p] = NoSubmission

\* The pattern, lower-cased, is a contiguous part of the lower-cased text.
Occurs(pattern, text) ==
    \E k \in 0..(Len(text) - Len(pattern)) :
        SubSeq(Lower(text), k + 1, k + Len(pattern)) = Lower(pattern)

SomeOccurs(rules, text) == \E i \in DOMAIN rules : Occurs(rules[i], text)

\* C12. For a pulled submission, title_matched is true exactly when at least
\* one title_match substring occurs in the lower-cased title and, when
\* title_match_secondary is configured, at least one of its substrings
\* occurs there too; a submission whose title fails this is not a hit: it is
\* discarded with no counter call.
C12_TitleStage ==
    \A p \in Instances :
        (submission[p] /= NoSubmission /\ HasKey(CONFIG, "title_match")) =>
            LET title == submission[p].title
                verdict ==
                    /\ SomeOccurs(CONFIG.title_match, title)
                    /\ HasKey(CONFIG, "title_match_secondary") =>
                           SomeOccurs(CONFIG.title_match_secondary, title)
            IN  /\ title_matched[p] = verdict
                /\ ~verdict =>
                       /\ stage[p] = "DISCARDED"
                       /\ pc[p] = "pull"
                       /\ hits[p] = 0
                       /\ counter[submission[p].id] = 0

\* A title holding a title_match substring and none of the configured
\* title_match_secondary substrings was evaluated.
C12_Witness ==
    \E p \in Instances :
        /\ submission[p] /= NoSubmission
        /\ HasKey(CONFIG, "title_match")
        /\ HasKey(CONFIG, "title_match_secondary")
        /\ SomeOccurs(CONFIG.title_match, submission[p].title)
        /\ CONFIG.title_match_secondary /= <<>>
        /\ ~SomeOccurs(CONFIG.title_match_secondary, submission[p].title)
        /\ ~title_matched[p]
        /\ stage[p] = "DISCARDED"

\* The title test of lines 176-184, as C12 states it.
TitleVerdict(cfg, sub) ==
    /\ SomeOccurs(cfg.title_match, sub.title)
    /\ HasKey(cfg, "title_match_secondary") =>
           SomeOccurs(cfg.title_match_secondary, sub.title)

\* The text test: passed when text_match is not configured; when it is,
\* passed exactly by a self post whose selftext holds one of its substrings,
\* case-insensitively.
TextVerdict(cfg, sub) ==
    HasKey(cfg, "text_match") =>
        (sub.is_self /\ SomeOccurs(cfg.text_match, sub.selftext))

\* The submission held by p was taken as a hit: it went on to the counter.
IsHit(p) == stage[p] \in {"COUNTING", "DISPATCHING", "DONE", "SUPPRESSED"}

\* C13. For a pulled submission that passed the title stage, text_matched
\* is true when text_match is not configured and, when it is configured,
\* exactly when the submission is a self post and a text_match substring
\* occurs case-insensitively in its selftext; a link post is never a hit
\* while text_match is configured; and the submission is a hit exactly when
\* it passes both the title test and the text test.
C13_TextStageAndVerdict ==
    \A p \in Instances :
        (submission[p] /= NoSubmission /\ HasKey(CONFIG, "title_match")) =>
            LET sub == submission[p]
            IN  /\ title_matched[p] =>
                       text_matched[p] = TextVerdict(CONFIG, sub)
                /\ (HasKey(CONFIG, "text_match") /\ ~sub.is_self) =>
                       ~IsHit(p)
                /\ IsHit(p) = (title_matched[p] /\ text_matched[p])
                /\ IsHit(p) =
                       (TitleVerdict(CONFIG, sub) /\ TextVerdict(CONFIG, sub))

\* A link post whose title passed was evaluated under a text_match list
\* holding a substring of its (empty) selftext, and was discarded.
C13_Witness ==
    \E p \in Instances :
        /\ submission[p] /= NoSubmission
        /\ HasKey(CONFIG, "title_match")
        /\ HasKey(CONFIG, "text_match")
        /\ title_matched[p]
        /\ ~submission[p].is_self
        /\ SomeOccurs(CONFIG.text_match, submission[p].selftext)
        /\ ~text_matched[p]
        /\ stage[p] = "DISCARDED"

\* The submission held by p has an empty title and was evaluated under a
\* non-empty title_match list.
EmptyTitleEvaluated(p) ==
    /\ submission[p] /= NoSubmission
    /\ HasKey(CONFIG, "title_match")
    /\ CONFIG.title_match /= <<>>
    /\ submission[p].title = <<>>

\* The submission held by p is no hit: no counter call and no dispatch
\* happened for it.
NeverHit(p) ==
    /\ ~title_matched[p]
    /\ ~IsHit(p)
    /\ hits[p] = 0
    /\ counter[submission[p].id] = 0
    /\ notified[submission[p].id] = 0

\* C14 as stated. Under any non-empty title_match list of strings, a
\* submission whose title is empty is never a hit.
C14_EmptyTitleNeverHit ==
    \A p \in Instances : EmptyTitleEvaluated(p) => NeverHit(p)

\* C14, amended. Under any non-empty title_match list that holds no empty
\* string, a submission whose title is empty is never a hit: title_matched
\* stays false and no counter call and no dispatch happen for it.
C14_EmptyTitleNoHitUnlessEmptyPattern ==
    \A p \in Instances :
        (/\ EmptyTitleEvaluated(p)
         /\ \A i \in DOMAIN CONFIG.title_match :
                CONFIG.title_match[i] /= <<>>)
            => NeverHit(p)

\* An empty title was evaluated under a list of non-empty patterns and
\* discarded.
C14_Witness ==
    \E p \in Instances :
        /\ EmptyTitleEvaluated(p)
        /\ \A i \in DOMAIN CONFIG.title_match : CONFIG.title_match[i] /= <<>>
        /\ stage[p] = "DISCARDED"
        /\ pulled = 1

\* Instance p is inside notify_event, or has been through it, for the
\* submission it holds.
Dispatched(p) ==
    \/ pc[p] \in {"prowl", "pushover"}
    \/ stage[p] \in {"DISPATCHING", "DONE"}
    \/ tried[p] /= {}

\* C15. A dispatch happens for a submission only after, in the same
\* processing, an increment for its id succeeded and answered exactly 1: no
\* dispatch for an id whose increment failed, was not attempted, or answered
\* another value.
C15_DispatchOnlyAfterFirstIncrement ==
    /\ \A p \in Instances :
           /\ Dispatched(p) =>
                  /\ hits[p] = 1
                  /\ counter[submission[p].id] >= 1
                  /\ notified[submission[p].id] >= 1
                  /\ title_matched[p] /\ text_matched[p]
           /\ (stage[p] \in {"NEW", "DISCARDED", "COUNTING", "SUPPRESSED",
                              "FAILED"}) =>
                  /\ tried[p] = {}
                  /\ pc[p] \notin {"prowl", "pushover"}
    /\ \A i \in Ids :
           /\ notified[i] <= counter[i]
           /\ \A t \in Transports : sent[i][t] > 0 => notified[i] > 0

\* A submission was dispatched on the answer 1, and the other id was counted
\* a second time without any dispatch.
C15_Witness ==
    \E p \in Instances :
        /\ stage[p] = "DONE"
        /\ hits[p] = 1
        /\ tried[p] /= {}
        /\ \E i \in Ids : counter[i] = 2 /\ notified[i] = 0

\* Nothing is in progress at instance p: it holds no submission yet, or the
\* one it holds is through evaluation, counting, retries, delays and
\* dispatch.
Finished(p) == stage[p] \in {"NONE", "DISCARDED", "DONE", "SUPPRESSED"}

\* Redis or a transport was called for id i in this step.
Touched(i) ==
    \/ counter'[i] /= counter[i]
    \/ notified'[i] /= notified[i]
    \/ sent'[i] /= sent[i]

\* A step in which something is pulled is taken by an instance that is at
\* the stream with nothing in progress; a step that calls Redis or a
\* transport for an id pulls nothing and is taken for the unfinished
\* submission an instance holds.
C16_Step ==
    /\ pulled' /= pulled =>
           \E p \in Instances :
               /\ pc[p] = "pull" /\ Finished(p)
               /\ \A q \in Instances \ {p} : pc[q] = "off"
    /\ \A i \in Ids :
           Touched(i) =>
               /\ pulled' = pulled
               /\ \E p \in Instances :
                      /\ submission[p].id = i
                      /\ submission'[p] = submission[p]
                      /\ ~Finished(p)

\* C16. An instance processes its submissions one at a time in the order
\* the stream yields them: it is at the stream only when the submission it
\* holds is finished, the next one is pulled only then, and every increment
\* and every dispatch is for the submission pulled last, so that increments
\* and dispatches follow the order of arrival.
C16_OneAtATime ==
    /\ [](\A p \in Instances :
             /\ pc[p] = "pull" => Finished(p)
             /\ pc[p] \in {"incr", "sleep", "log_hit"} => stage[p] = "COUNTING"
             /\ pc[p] \in {"prowl", "pushover"} => stage[p] = "DISPATCHING")
    /\ [][C16_Step]_vars

\* A second submission is in a retry delay after the first one, of another
\* id, was counted and dispatched.
C16_Witness ==
    \E p \in Instances :
        /\ pulled = 2
        /\ pc[p] = "sleep"
        /\ \E i \in Ids \ {submission[p].id} :
               counter[i] = 1 /\ notified[i] = 1

\* The processing of the submission held by p, under a configuration with
\* title_match, is over: p is back at the stream, or its process ended on
\* an exception of its own code.
ProcessingOver(p) ==
    /\ HasKey(CONFIG, "title_match")
    /\ submission[p] /= NoSubmission
    /\ \/ pc[p] = "pull"
       \/ pc[p] = "exited" /\ exc[p] /= "Interrupt"

\* C17. Every pulled submission, each store call and transport call
\* returning or failing, ends in exactly one of the terminal states
\* DISCARDED, DONE, SUPPRESSED and FAILED, and leaves COUNTING after at most
\* 6 attempts.
C17_EndsInTerminalState ==
    \A p \in Instances :
        /\ ProcessingOver(p) =>
               stage[p] \in {"DISCARDED", "DONE", "SUPPRESSED", "FAILED"}
        /\ attempts[p] <= Retries + 1

\* C18. When a process was interrupted after the increment for a first-seen
\* hit committed and before notify_event was called, the counter of that id
\* stays incremented, no notification is ever made for it, and every later
\* processing of the id, after a restart on the same Redis, gets an answer
\* above 1 and is suppressed.
C18_InterruptedHitNeverNotified ==
    \A i \in Ids :
        cut[i] =>
            /\ counter[i] >= 1
            /\ notified[i] = 0
            /\ \A t \in Transports : sent[i][t] = 0
            /\ \A p \in Instances :
                   submission[p].id = i =>
                       /\ ~Dispatched(p)
                       /\ hits[p] = 1 =>
                              pc[p] = "exited" /\ exc[p] = "Interrupt"
                       /\ (pc[p] = "pull" /\ title_matched[p]
                                          /\ text_matched[p]) =>
                              stage[p] = "SUPPRESSED" /\ hits[p] >= 2

\* After such an interruption and a restart the same id was pulled again as
\* a hit and skipped, with no notification ever made for it.
C18_Witness ==
    \E p \in Instances :
        /\ submission[p] /= NoSubmission
        /\ cut[submission[p].id]
        /\ pc[p] = "pull"
        /\ stage[p] = "SUPPRESSED"
        /\ hits[p] = 2
        /\ notified[submission[p].id] = 0

\* C19. An error of the counter store other than a connection error is not
\* retried: the attempt that raised it is the last one and no delay follows
\* it (one attempt and no delay at all when it is the first error of the
\* call), the error ends the processing at once, and nothing is dispatched
\* for the submission.
C19_OtherErrorNotRetried ==
    \A p \in Instances :
        (pc[p] = "exited" /\ exc[p] = "ResponseError") =>
            /\ attempts[p] = failures[p] + 1
            /\ delays[p] = failures[p]
            /\ failures[p] = 0 => (attempts[p] = 1 /\ delays[p] = 0)
            /\ hits[p] = 0
            /\ stage[p] = "FAILED"
            /\ ~Dispatched(p)
            /\ counter[submission[p].id] = base[p]
            /\ notified[submission[p].id] <= base[p]

\* The first attempt for a first-seen hit raised such an error.
C19_Witness ==
    \E p \in Instances :
        /\ pc[p] = "exited"
        /\ exc[p] = "ResponseError"
        /\ attempts[p] = 1
        /\ delays[p] = 0
        /\ counter[submission[p].id] = 0

\* C20. Nothing is carried from one submission to the next: whatever was
\* processed before, the flags of the submission an instance holds are the
\* verdict of the rules on that submission alone, every increment call
\* starts with 5 retries and spends one per connection error of its own,
\* and the answer it gets is one more than the counter of its own id when
\* the call began; the branch taken follows from these alone.
C20_NothingCarriedOver ==
    \A p \in Instances :
        (submission[p] /= NoSubmission /\ HasKey(CONFIG, "title_match")) =>
            LET sub == submission[p]
                title == TitleVerdict(CONFIG, sub)
                text == TextVerdict(CONFIG, sub)
            IN  /\ title_matched[p] = title
                /\ text_matched[p] = (title /\ text)
                /\ pc[p] \in {"incr", "sleep"} =>
                       /\ retries[p] = Retries - failures[p]
                       /\ attempts[p] = failures[p]
                       /\ attempts[p] = 0 => retries[p] = Retries
                /\ pc[p] = "log_hit" => hits[p] = base[p] + 1
                /\ stage[p] = "DISCARDED" => ~(title /\ text)
                /\ IsHit(p) => (title /\ text)
                /\ stage[p] \in {"DISPATCHING", "DONE"} => hits[p] = 1
                /\ stage[p] = "SUPPRESSED" => hits[p] > 1

\* The second submission pulled fails the title test right after a hit of
\* another id was counted and dispatched: the flags the hit had set are
\* false again.
C20_Witness ==
    \E p \in Instances :
        /\ pulled = 2
        /\ submission[p] /= NoSubmission
        /\ HasKey(CONFIG, "title_match")
        /\ CONFIG.title_match /= <<>>
        /\ stage[p] = "DISCARDED"
        /\ ~title_matched[p]
        /\ \E i \in Ids \ {submission[p].id} :
               counter[i] = 1 /\ notified[i] = 1 /\ ~cut[i]

====
